---- MODULE Spec2Model ----
(***************************************************************************)
(* A model of src/server/context.rs: the networking Context of a node.    *)
(* One Context is shared (by reference) by the threads of Threads.  Every *)
(* method of Context is modelled step by step; a step is the code between *)
(* two points at which another thread can observe or change shared state  *)
(* (the socket, the mio Poll, the two mutexes, the channel).              *)
(***************************************************************************)
EXTENDS Integers, Sequences, FiniteSets, Bags, TLC

(* ------------------------------ bounds -------------------------------- *)

\* blocks a thread announces
MaxAnnounce == 2
\* longest peer list given to Context::new
MaxPeers == 2

\* the threads that share the context
Threads == {1, 2}
\* event values (opaque to the context)
Events == {"e1"}
\* block values (opaque to the context)
Blocks == {"b1", "b2"}
\* socket addresses are opaque to the context: it never compares or orders
\* them, so peer lists are enumerated up to renaming of addresses (the first
\* new address of a list is 1, the next new one 2, ...).
Addrs == 1..MaxPeers
Handlers == {"h1", "h2"}
\* io::Result<()> values a handler can return
Results == {"Ok", "E1", "E2"}
\* Ready::readable(), Ready::writable(); a Ready value is a set of these
Kinds == {"R", "W"}
ReadyArgs == {{"R"}, {"W"}, {"R", "W"}}
\* addresses the node can be asked to bind
LocalAddrs == {9000}

RECURSIVE SeqsUpTo(_)
SeqsUpTo(n) ==
  IF n = 0 THEN {<<>>}
  ELSE LET shorter == SeqsUpTo(n - 1)
       IN shorter \cup {Append(s, a) : s \in {x \in shorter : Len(x) = n - 1}, a \in Addrs}

Range(s) == {s[i] : i \in DOMAIN s}
MaxOf(S) == IF S = {} THEN 0 ELSE CHOOSE m \in S : \A x \in S : x <= m

\* a list in which every address that is new at its position is the next
\* unused one: one representative per renaming class
Canonical(s) ==
  \A i \in DOMAIN s : s[i] <= MaxOf({s[j] : j \in 1..(i - 1)}) + 1

PeerLists == {s \in SeqsUpTo(MaxPeers) : Canonical(s)}

\* the longest list of pairwise distinct peers
FullPeers == [i \in 1..MaxPeers |-> i]

(* ------------------------------- state -------------------------------- *)

VARIABLES
  built,      \* "no" before Context::new, "ok" after Ok(Context), else the failed step
  addr,       \* Context.addr
  peers,      \* Context.peers
  handler,    \* Context.event_service: "none" or the registered handler
  registered, \* register_event_handler has been called
  regCall,    \* the last register_event_handler call: its argument and its result
  sockW,      \* the socket's send buffer has room (send_to would not block)
  sockR,      \* the socket has a datagram to read
  pending,    \* readiness edges of the socket the OS has not delivered yet
  events,     \* Context.events: the events the last Poll::poll put in the buffer
  evLock,     \* owner of the Mutex<Events> (0: free)
  evPoisoned, \* the Mutex<Events> is poisoned
  txLock,     \* owner of the Mutex<Sender<Block>> (0: free)
  txPoisoned, \* the Mutex<Sender<Block>> is poisoned
  rxAlive,    \* the channel's Receiver has not been dropped
  chan,       \* blocks in the channel, oldest first
  rcvd,       \* blocks the consumer has received, oldest first
  announced,  \* per thread: blocks of its completed announce_block calls, in call order
  th          \* per thread: position and locals

vars == <<built, addr, peers, handler, registered, regCall, sockW, sockR, pending, events,
          evLock, evPoisoned, txLock, txPoisoned, rxAlive, chan, rcvd,
          announced, th>>

ctxVars == <<built, addr, peers, handler, registered, regCall>>
sockVars == <<sockW, sockR, pending>>
pollVars == <<events, evLock, evPoisoned>>
chanVars == <<txLock, txPoisoned, rxAlive, chan, rcvd, announced>>

NoRet == [op |-> "none", val |-> "none"]

\* no register_event_handler call was made yet
NoReg == [arg |-> "none", val |-> "none"]

IdleThread ==
  [pc |-> "idle", stack |-> <<>>,
   buf |-> <<>>, sel |-> <<>>, idx |-> 0, sends |-> <<>>,
   dest |-> 0, lastRes |-> "none", want |-> {},
   blk |-> "none", svc |-> "none", disp |-> "none", hres |-> "none",
   retv |-> NoRet, panic |-> "none"]

Init ==
  /\ built = "no"
  /\ addr = 0
  /\ peers = <<>>
  /\ handler = "none"
  /\ registered = FALSE
  /\ regCall = NoReg
  /\ sockW = FALSE
  /\ sockR = FALSE
  /\ pending = {}
  /\ events = {}
  /\ evLock = 0
  /\ evPoisoned = FALSE
  /\ txLock = 0
  /\ txPoisoned = FALSE
  /\ rxAlive = TRUE
  /\ chan = <<>>
  /\ rcvd = <<>>
  /\ announced = [t \in Threads |-> <<>>]
  /\ th = [t \in Threads |-> IdleThread]


(* --------------------------- pure functions --------------------------- *)

Min(a, b) == IF a <= b THEN a ELSE b

\* Message::Event(evt): the tagged envelope
MessageEvent(e) == [tag |-> "Event", evt |-> e]

\* serde_json::to_vec of the envelope: the variant name, then the payload
ToVec(m) == <<m.tag, m.evt>>

\* all sequences of n pairwise distinct members of S
RECURSIVE Arrangements(_, _)
Arrangements(S, n) ==
  IF n = 0 THEN {<<>>}
  ELSE UNION {{<<x>> \o s : s \in Arrangements(S \ {x}, n - 1)} : x \in S}

\* mutant of ChooseMultiple: the amount is not clamped to the slice's length
ChooseMultipleUnclamped(slice, amount) ==
  Arrangements(1..amount, amount)

\* slice.choose_multiple(rng, amount): amount distinct positions of the
\* slice (all of them when the slice is shorter), in a random order.  The
\* result is the set of selections the random generator can produce.
ChooseMultiple(slice, amount) ==
  Arrangements(DOMAIN slice, Min(amount, Len(slice)))

\* socket.send_to on a non-blocking UDP socket: it succeeds only if the send
\* buffer has room, reports WouldBlock only if it has none, and can fail
\* with another error at any time
SendToOutcomes ==
  (IF sockW THEN {"Ok"} ELSE {"WouldBlock"}) \cup {"Err"}

\* the readiness kinds the socket currently has
Levels == (IF sockR THEN {"R"} ELSE {}) \cup (IF sockW THEN {"W"} ELSE {})

\* one mio event
Event(k) == [token |-> 0, ready |-> k]

\* the batches Poll::poll can put in the buffer.  Registration is
\* edge-triggered: nothing is delivered unless an edge is pending.  The
\* kinds reported are current readiness, and at least those with a pending
\* edge that is still current (epoll reports every current kind in one
\* event, kqueue one event per triggered kind).
PollBatches ==
  IF pending = {} THEN {}
  ELSE LET ks == {k \in SUBSET Levels : pending \cap Levels \subseteq k /\ k # {}}
       IN {{Event(k)} : k \in ks} \cup {{Event({x}) : x \in k} : k \in ks}

\* mutant of Delivered: any delivered event counts
DeliveredAny(evs, r) == evs # {}

\* events.iter() finds an event with Token(0) whose readiness contains r
Delivered(evs, r) == \E e \in evs : e.token = 0 /\ r \subseteq e.ready

\* mutant of DispatchResult: the handler's failure is dropped
DispatchResultSwallowed(r) == "Ok"

\* the `?` of handle_event / handle_request followed by Ok(())
DispatchResult(r) == IF r = "Ok" THEN "Ok" ELSE r

\* mutant of Enqueue: the value goes to the front
EnqueueFront(q, t, b) == <<[src |-> t, val |-> b]>> \o q

\* mutant of Enqueue: a value sent while another is queued is lost
EnqueueLossy(q, t, b) ==
  IF q = <<>> THEN <<[src |-> t, val |-> b]>> ELSE q

\* Sender::send on the unbounded channel: the value goes to the back
Enqueue(q, t, b) == Append(q, [src |-> t, val |-> b])

(* ------------------------- thread bookkeeping ------------------------- *)

Unit(op) == [op |-> op, val |-> "unit"]

\* a thread about to make a top-level call on the constructed context
CanCall(t) ==
  /\ built = "ok"
  /\ th[t].pc = "idle"

\* the locals of a thread entering a top-level call: what its last call
\* came to is forgotten
Fresh(r) == IdleThread

\* return v to the caller: the frame on top of the stack, or the thread's
\* own code when the call was a top-level one (its locals are gone then;
\* what the call came to stays visible until the thread's next call)
Return(r, v) ==
  IF r.stack = <<>>
  THEN [IdleThread EXCEPT !.retv = v, !.lastRes = r.lastRes, !.hres = r.hres]
  ELSE [r EXCEPT !.pc = Head(r.stack), !.stack = Tail(r.stack), !.retv = v]

\* a panic unwinds the whole thread
Panic(r, why) ==
  [IdleThread EXCEPT !.pc = "aborted", !.panic = why, !.lastRes = r.lastRes]

\* enter a callee, to come back at pc `back`; what the previous callee came
\* to is forgotten
Push(r, back) ==
  [r EXCEPT !.stack = <<back>> \o r.stack, !.retv = NoRet, !.lastRes = "none"]

(* ---------------------------- construction ---------------------------- *)

\* mutant of ContextFields: the peer list is stored without its repeated
\* addresses
RECURSIVE Dedup(_)
Dedup(p) ==
  IF p = <<>> THEN <<>>
  ELSE LET front == Dedup(SubSeq(p, 1, Len(p) - 1))
       IN IF p[Len(p)] \in Range(front) THEN front ELSE Append(front, p[Len(p)])

ContextFieldsDedup(a, p) ==
  [addr |-> a, peers |-> Dedup(p), event_service |-> "none"]

\* Ok(Context { .., addr, peers, event_service: None }): the arguments are
\* moved into the fields as they are
ContextFields(a, p) ==
  [addr |-> a, peers |-> p, event_service |-> "none"]

\* Context::new(a, p, tx): each of the three `?` can return the error
New(a, p) ==
  /\ built = "no"
  /\ \E outcome \in {"bind_failed", "poll_new_failed", "register_failed", "ok"} :
       IF outcome = "ok"
       THEN /\ built' = "ok"
            /\ addr' = ContextFields(a, p).addr
            /\ peers' = ContextFields(a, p).peers
            /\ handler' = ContextFields(a, p).event_service
            /\ events' = {}
            \* a fresh UDP socket has room to send; registering it
            \* edge-triggered reports that first readiness as an edge
            /\ sockW' = TRUE
            /\ pending' = {"W"}
            /\ UNCHANGED <<registered, regCall, sockR, evLock, evPoisoned, chanVars, th>>
       ELSE /\ built' = outcome
            /\ UNCHANGED <<addr, peers, handler, registered, regCall, sockVars, pollVars, chanVars, th>>

\* mutant of Registered: a registered handler is not replaced
RegisteredOnce(old, h) == IF old = "none" THEN h ELSE old

\* self.event_service = Some(Box::new(service)): the slot after the
\* assignment, whatever it held
Registered(old, h) == h

\* register_event_handler(&mut self, h): the exclusive borrow means no
\* thread is inside a call on the context; the method returns Ok(())
RegisterHandler(h) ==
  /\ built = "ok"
  /\ \A t \in Threads : th[t].pc \in {"idle", "aborted"}
  /\ handler' = Registered(handler, h)
  /\ registered' = TRUE
  /\ regCall' = [arg |-> h, val |-> "Ok"]
  /\ UNCHANGED <<built, addr, peers, sockVars, pollVars, chanVars, th>>

(* ------------------------ the socket and the OS ----------------------- *)

\* the send buffer fills up (the socket is shared through get_socket)
SockBufferFull ==
  /\ built = "ok"
  /\ sockW
  /\ sockW' = FALSE
  /\ UNCHANGED <<ctxVars, sockR, pending, pollVars, chanVars, th>>

\* the send buffer drains: an edge to writable
SockBufferDrained ==
  /\ built = "ok"
  /\ ~sockW
  /\ sockW' = TRUE
  /\ pending' = pending \cup {"W"}
  /\ UNCHANGED <<ctxVars, sockR, pollVars, chanVars, th>>

\* a datagram arrives: an edge to readable
DatagramArrives ==
  /\ built = "ok"
  /\ ~(sockR /\ "R" \in pending)
  /\ sockR' = TRUE
  /\ pending' = pending \cup {"R"}
  /\ UNCHANGED <<ctxVars, sockW, pollVars, chanVars, th>>

\* a holder of get_socket() reads the socket empty
SocketRead ==
  /\ built = "ok"
  /\ sockR
  /\ sockR' = FALSE
  /\ UNCHANGED <<ctxVars, sockW, pending, pollVars, chanVars, th>>

(* -------------------------------- poll -------------------------------- *)

\* a thread calls poll(r)
PollCall(t, r) ==
  /\ CanCall(t)
  /\ th' = [th EXCEPT ![t] = [Fresh(@) EXCEPT !.pc = "poll_lock", !.want = r]]
  /\ UNCHANGED <<ctxVars, sockVars, pollVars, chanVars>>

\* mutant of PollLock: the mutex is taken whether it is held or not
PollLockBarging(t) ==
  /\ th[t].pc = "poll_lock"
  /\ IF evPoisoned
     THEN /\ th' = [th EXCEPT ![t] = Panic(@, "events_poisoned")]
          /\ UNCHANGED evLock
     ELSE /\ th' = [th EXCEPT ![t].pc = "poll_wait"]
          /\ evLock' = t
  /\ UNCHANGED <<ctxVars, sockVars, events, evPoisoned, chanVars>>

\* mutant of PollLock: a poisoned mutex is taken all the same
PollLockIgnoresPoison(t) ==
  /\ th[t].pc = "poll_lock"
  /\ evLock = 0
  /\ th' = [th EXCEPT ![t].pc = "poll_wait"]
  /\ evLock' = t
  /\ UNCHANGED <<ctxVars, sockVars, events, evPoisoned, chanVars>>

\* self.events.lock().unwrap(): blocks while the mutex is held; panics if
\* it is poisoned (the guard inside the error is dropped by the unwinding)
PollLock(t) ==
  /\ th[t].pc = "poll_lock"
  /\ evLock = 0
  /\ IF evPoisoned
     THEN /\ th' = [th EXCEPT ![t] = Panic(@, "events_poisoned")]
          /\ UNCHANGED evLock
     ELSE /\ th' = [th EXCEPT ![t].pc = "poll_wait"]
          /\ evLock' = t
  /\ UNCHANGED <<ctxVars, sockVars, events, evPoisoned, chanVars>>

\* self.poll.poll(&mut events, WAIT_TIMEOUT) returns a batch, or nothing
\* after the timeout
PollWait(t) ==
  /\ th[t].pc = "poll_wait"
  /\ IF PollBatches = {}
     THEN events' = {} /\ UNCHANGED pending
     ELSE events' \in PollBatches /\ pending' = {}
  /\ th' = [th EXCEPT ![t].pc = "poll_scan"]
  /\ UNCHANGED <<ctxVars, sockW, sockR, evLock, evPoisoned, chanVars>>

\* self.poll.poll(..) returns Err: unwrap panics while the guard is held,
\* which poisons the mutex and releases it
PollWaitFails(t) ==
  /\ th[t].pc = "poll_wait"
  /\ th' = [th EXCEPT ![t] = Panic(@, "poll_failed")]
  /\ evLock' = 0
  /\ evPoisoned' = TRUE
  /\ UNCHANGED <<ctxVars, sockVars, events, chanVars>>

\* mutant of PollScan: poll returns with the guard still held
PollScanKeepsGuard(t) ==
  /\ th[t].pc = "poll_scan"
  /\ IF Delivered(events, th[t].want)
     THEN th' = [th EXCEPT ![t] = Return(@, Unit("poll"))]
     ELSE th' = [th EXCEPT ![t].pc = "poll_wait"]
  /\ UNCHANGED <<ctxVars, sockVars, pollVars, chanVars>>

\* mutant of PollScan: the guard is dropped before every re-wait
PollScanReleases(t) ==
  /\ th[t].pc = "poll_scan"
  /\ evLock' = 0
  /\ IF Delivered(events, th[t].want)
     THEN th' = [th EXCEPT ![t] = Return(@, Unit("poll"))]
     ELSE th' = [th EXCEPT ![t].pc = "poll_lock"]
  /\ UNCHANGED <<ctxVars, sockVars, events, evPoisoned, chanVars>>

\* for event in events.iter(): return on the first match (dropping the
\* guard), else loop to the next Poll::poll with the guard still held
PollScan(t) ==
  /\ th[t].pc = "poll_scan"
  /\ IF Delivered(events, th[t].want)
     THEN /\ th' = [th EXCEPT ![t] = Return(@, Unit("poll"))]
          /\ evLock' = 0
     ELSE /\ th' = [th EXCEPT ![t].pc = "poll_wait"]
          /\ UNCHANGED evLock
  /\ UNCHANGED <<ctxVars, sockVars, events, evPoisoned, chanVars>>

(* -------------------------------- send -------------------------------- *)

\* a thread calls send(b, a)
SendCall(t, b, a) ==
  /\ CanCall(t)
  /\ th' = [th EXCEPT ![t] = [Fresh(@) EXCEPT !.pc = "send_try", !.buf = b, !.dest = a]]
  /\ UNCHANGED <<ctxVars, sockVars, pollVars, chanVars>>

\* mutant of SendStep: any failure ends the send, WouldBlock too
SendStepGiveUp(r, res) ==
  Return([r EXCEPT !.lastRes = res], Unit("send"))

\* mutant of SendStep: any failure is retried after a wait for writability
SendStepRetryAll(r, res) ==
  IF res = "Ok"
  THEN Return([r EXCEPT !.lastRes = res], Unit("send"))
  ELSE [Push(r, "send_try") EXCEPT !.pc = "poll_lock", !.want = {"W"}, !.lastRes = res]

\* what send does with the result of one send_to
SendStep(r, res) ==
  IF res = "WouldBlock"
  THEN [Push(r, "send_try") EXCEPT !.pc = "poll_lock", !.want = {"W"}, !.lastRes = res]
  ELSE Return([r EXCEPT !.lastRes = res], Unit("send"))

\* one turn of send's loop: socket.send_to, then return or poll(writable)
SendTry(t) ==
  /\ th[t].pc = "send_try"
  /\ \E res \in SendToOutcomes :
       th' = [th EXCEPT ![t] = SendStep(@, res)]
  /\ UNCHANGED <<ctxVars, sockVars, pollVars, chanVars>>

(* ------------------------------ propagate ----------------------------- *)

\* the frame of propagate(e) with its selection made
PropagateFrame(r, e, s) ==
  [r EXCEPT !.pc = "prop_loop", !.buf = ToVec(MessageEvent(e)),
            !.sel = s, !.idx = 1, !.sends = <<>>]

\* a thread calls propagate(e): serialize, then choose_multiple(rng, 2)
PropagateCall(t, e) ==
  /\ CanCall(t)
  /\ \E s \in ChooseMultiple(peers, 2) :
       th' = [th EXCEPT ![t] = PropagateFrame(Fresh(@), e, s)]
  /\ UNCHANGED <<ctxVars, sockVars, pollVars, chanVars>>

\* the destination of the k-th turn of propagate's loop
Target(r, k) == peers[r.sel[k]]

\* the record of one send call of propagate: its arguments, and how the
\* send before it ended
SendRecord(r) ==
  [to |-> Target(r, r.idx), buf |-> r.buf, after |-> r.lastRes]

\* the return of propagate
PropReturn(r) ==
  Return([r EXCEPT !.sel = <<>>, !.idx = 0, !.sends = <<>>,
                   !.buf = <<>>, !.dest = 0, !.want = {},
                   !.lastRes = "none"],
         Unit("propagate"))

\* mutant of PropLoop: the loop ends after a send that was abandoned
PropLoopStopsOnErr(t) ==
  /\ th[t].pc = "prop_loop"
  /\ IF th[t].idx <= Len(th[t].sel) /\ th[t].lastRes # "Err"
     THEN th' = [th EXCEPT ![t] =
                   [Push(@, "prop_loop") EXCEPT
                      !.pc = "send_try",
                      !.dest = Target(th[t], th[t].idx),
                      !.lastRes = "none",
                      !.idx = @ + 1,
                      !.sends = Append(@, SendRecord(th[t]))]]
     ELSE th' = [th EXCEPT ![t] = PropReturn(@)]
  /\ UNCHANGED <<ctxVars, sockVars, pollVars, chanVars>>

\* one turn of propagate's for loop: self.send(&buf, addr) for the next
\* selected peer, or the end of the loop and the return
PropLoop(t) ==
  /\ th[t].pc = "prop_loop"
  /\ IF th[t].idx <= Len(th[t].sel)
     THEN th' = [th EXCEPT ![t] =
                   [Push(@, "prop_loop") EXCEPT
                      !.pc = "send_try",
                      !.dest = Target(th[t], th[t].idx),
                      !.lastRes = "none",
                      !.idx = @ + 1,
                      !.sends = Append(@, SendRecord(th[t]))]]
     ELSE th' = [th EXCEPT ![t] = PropReturn(@)]
  /\ UNCHANGED <<ctxVars, sockVars, pollVars, chanVars>>

(* ------------------------------ dispatch ------------------------------ *)

\* mutant of Dispatch: the handler slot is not checked
DispatchUnchecked(r, op) ==
  [r EXCEPT !.pc = "svc_run", !.svc = handler, !.disp = op]

\* what handle_event / handle_request (named by op) does on entry: with no
\* handler it falls through to Ok(()); with one it runs the handler
Dispatch(r, op) ==
  IF handler = "none"
  THEN [r EXCEPT !.retv = [op |-> op, val |-> "Ok"]]
  ELSE [r EXCEPT !.pc = "svc_run", !.svc = handler, !.disp = op]

\* a thread calls handle_event(evt, from)
HandleEventCall(t) ==
  /\ CanCall(t)
  /\ th' = [th EXCEPT ![t] = Dispatch(Fresh(@), "handle_event")]
  /\ UNCHANGED <<ctxVars, sockVars, pollVars, chanVars>>

\* a thread calls handle_request(data)
HandleRequestCall(t) ==
  /\ CanCall(t)
  /\ th' = [th EXCEPT ![t] = Dispatch(Fresh(@), "handle_request")]
  /\ UNCHANGED <<ctxVars, sockVars, pollVars, chanVars>>

\* the running handler (process_event or process_request of the Service)
\* calls back ctx.propagate(e)
SvcPropagate(t, e) ==
  /\ th[t].pc = "svc_run"
  /\ \E s \in ChooseMultiple(peers, 2) :
       th' = [th EXCEPT ![t] =
                PropagateFrame(Push(@, "svc_run"), e, s)]
  /\ UNCHANGED <<ctxVars, sockVars, pollVars, chanVars>>

\* the running handler calls back ctx.announce_block(b)
SvcAnnounce(t, b) ==
  /\ th[t].pc = "svc_run"
  /\ Len(announced[t]) < MaxAnnounce
  /\ th' = [th EXCEPT ![t] =
              [Push(@, "svc_run") EXCEPT !.pc = "ann_lock", !.blk = b]]
  /\ UNCHANGED <<ctxVars, sockVars, pollVars, chanVars>>

\* the handler returns res, and handle_event / handle_request returns what
\* its `?` and Ok(()) make of it
SvcReturn(t, res) ==
  /\ th[t].pc = "svc_run"
  /\ th' = [th EXCEPT ![t] =
              Return([@ EXCEPT !.hres = res],
                     [op |-> th[t].disp, val |-> DispatchResult(res)])]
  /\ UNCHANGED <<ctxVars, sockVars, pollVars, chanVars>>

(* --------------------------- announce_block --------------------------- *)

\* a thread calls announce_block(b)
AnnounceCall(t, b) ==
  /\ CanCall(t)
  /\ Len(announced[t]) < MaxAnnounce
  /\ th' = [th EXCEPT ![t] = [Fresh(@) EXCEPT !.pc = "ann_lock", !.blk = b]]
  /\ UNCHANGED <<ctxVars, sockVars, pollVars, chanVars>>

\* self.tx.lock().unwrap(): blocks while the mutex is held, panics if it is
\* poisoned
AnnounceLock(t) ==
  /\ th[t].pc = "ann_lock"
  /\ txLock = 0
  /\ IF txPoisoned
     THEN /\ th' = [th EXCEPT ![t] = Panic(@, "tx_poisoned")]
          /\ UNCHANGED txLock
     ELSE /\ th' = [th EXCEPT ![t].pc = "ann_send"]
          /\ txLock' = t
  /\ UNCHANGED <<ctxVars, sockVars, pollVars, txPoisoned, rxAlive, chan, rcvd, announced>>

\* mutant of AnnounceSend: the Err of a send to a dropped receiver is ignored
AnnounceSendUnchecked(t) ==
  /\ th[t].pc = "ann_send"
  /\ txLock' = 0
  /\ announced' = [announced EXCEPT ![t] = Append(@, th[t].blk)]
  /\ th' = [th EXCEPT ![t] = Return(@, Unit("announce_block"))]
  /\ chan' = IF rxAlive THEN Enqueue(chan, t, th[t].blk) ELSE chan
  /\ UNCHANGED <<ctxVars, sockVars, pollVars, txPoisoned, rxAlive, rcvd>>

\* .send(block.clone()).unwrap() and the end of the statement: the clone is
\* queued and the guard dropped, or, the receiver being gone, send returns
\* Err and unwrap panics with the guard held (poisoning the mutex)
AnnounceSend(t) ==
  /\ th[t].pc = "ann_send"
  /\ txLock' = 0
  /\ IF rxAlive
     THEN /\ chan' = Enqueue(chan, t, th[t].blk)
          /\ announced' = [announced EXCEPT ![t] = Append(@, th[t].blk)]
          /\ th' = [th EXCEPT ![t] = Return(@, Unit("announce_block"))]
          /\ UNCHANGED txPoisoned
     ELSE /\ txPoisoned' = TRUE
          /\ th' = [th EXCEPT ![t] = Panic(@, "receiver_dropped")]
          /\ UNCHANGED <<chan, announced>>
  /\ UNCHANGED <<ctxVars, sockVars, pollVars, rxAlive, rcvd>>

\* the consumer (outside the context) takes the oldest block
Recv ==
  /\ rxAlive
  /\ chan # <<>>
  /\ rcvd' = Append(rcvd, Head(chan))
  /\ chan' = Tail(chan)
  /\ UNCHANGED <<ctxVars, sockVars, pollVars, txLock, txPoisoned, rxAlive, announced, th>>

\* the consumer drops the Receiver; blocks still queued are dropped with it
DropReceiver ==
  /\ rxAlive
  /\ rxAlive' = FALSE
  /\ chan' = <<>>
  /\ UNCHANGED <<ctxVars, sockVars, pollVars, txLock, txPoisoned, rcvd, announced, th>>

(* ------------------------------ accessors ----------------------------- *)

\* get_socket(), get_addr(), get_peers()
GetSocket(t) ==
  /\ CanCall(t)
  /\ th' = [th EXCEPT ![t] = [Fresh(@) EXCEPT !.retv = [op |-> "get_socket", val |-> "socket"]]]
  /\ UNCHANGED <<ctxVars, sockVars, pollVars, chanVars>>

GetAddr(t) ==
  /\ CanCall(t)
  /\ th' = [th EXCEPT ![t] = [Fresh(@) EXCEPT !.retv = [op |-> "get_addr", val |-> addr]]]
  /\ UNCHANGED <<ctxVars, sockVars, pollVars, chanVars>>

GetPeers(t) ==
  /\ CanCall(t)
  /\ th' = [th EXCEPT ![t] = [Fresh(@) EXCEPT !.retv = [op |-> "get_peers", val |-> peers]]]
  /\ UNCHANGED <<ctxVars, sockVars, pollVars, chanVars>>

(* --------------------------- specifications --------------------------- *)

\* the socket and the OS
EnvSocket ==
  \/ SockBufferFull
  \/ SockBufferDrained
  \/ DatagramArrives
  \/ SocketRead

\* the steps inside poll, send and propagate, whoever called them
StepNet(t) ==
  \/ PollLock(t)
  \/ PollWait(t)
  \/ PollWaitFails(t)
  \/ PollScan(t)
  \/ SendTry(t)
  \/ PropLoop(t)

\* the steps inside announce_block
StepAnnounce(t) ==
  \/ AnnounceLock(t)
  \/ AnnounceSend(t)

\* Gossip: threads that wait for readiness, send and propagate, on a
\* context built with any peer list
NextGossip ==
  \/ \E a \in LocalAddrs, p \in PeerLists : New(a, p)
  \/ SockBufferFull
  \/ SockBufferDrained
  \/ \E t \in Threads :
       \/ \E e \in Events, a \in Range(peers) : SendCall(t, ToVec(MessageEvent(e)), a)
       \/ \E e \in Events : PropagateCall(t, e)
       \/ StepNet(t)

SpecGossip == Init /\ [][NextGossip]_vars

\* Channel: threads that announce blocks, and the consumer of the channel
NextChannel ==
  \/ \E a \in LocalAddrs : New(a, FullPeers)
  \/ Recv
  \/ DropReceiver
  \/ \E t \in Threads :
       \/ \E b \in Blocks : AnnounceCall(t, b)
       \/ StepAnnounce(t)

SpecChannel == Init /\ [][NextChannel]_vars

\* the blocks a handler announces
HandlerBlocks == {"b1"}

\* a list of one peer
OnePeer == <<1>>

\* Dispatch: threads that hand events and requests to the handler, which
\* calls back into the context, around registrations of the handler
NextDispatch ==
  \/ \E a \in LocalAddrs : New(a, OnePeer)
  \/ \E h \in Handlers : RegisterHandler(h)
  \/ SockBufferFull
  \/ SockBufferDrained
  \/ \E t \in Threads :
       \/ HandleEventCall(t)
       \/ HandleRequestCall(t)
       \/ \E e \in Events : SvcPropagate(t, e)
       \/ \E b \in HandlerBlocks : SvcAnnounce(t, b)
       \/ \E res \in Results : SvcReturn(t, res)
       \/ StepNet(t)
       \/ StepAnnounce(t)

SpecDispatch == Init /\ [][NextDispatch]_vars

\* Nested: a thread that dispatches events and a thread that dispatches
\* requests to one handler, which succeeds after calling back propagate and
\* announce_block
NextNested ==
  \/ \E a \in LocalAddrs : New(a, OnePeer)
  \/ RegisterHandler("h1")
  \/ SockBufferFull
  \/ SockBufferDrained
  \/ \E t \in Threads :
       \/ t = 1 /\ HandleEventCall(t)
       \/ t = 2 /\ HandleRequestCall(t)
       \/ \E e \in Events : SvcPropagate(t, e)
       \/ \E b \in HandlerBlocks : SvcAnnounce(t, b)
       \/ SvcReturn(t, "Ok")
       \/ StepNet(t)
       \/ StepAnnounce(t)

SpecNested == Init /\ [][NextNested]_vars

\* the scheduler runs a thread inside announce_block, and a thread that can
\* take the channel's mutex again and again gets it
FairNested ==
  /\ SpecNested
  /\ \A t \in Threads : WF_vars(AnnounceSend(t)) /\ SF_vars(AnnounceLock(t))

\* Poll: threads that wait for readiness of any kind and threads that send,
\* on a socket whose readiness comes and goes
NextPoll ==
  \/ \E a \in LocalAddrs : New(a, OnePeer)
  \/ EnvSocket
  \/ \E t \in Threads :
       \/ \E r \in ReadyArgs : PollCall(t, r)
       \/ \E e \in Events, a \in Range(peers) : SendCall(t, ToVec(MessageEvent(e)), a)
       \/ PollLock(t)
       \/ PollWait(t)
       \/ PollWaitFails(t)
       \/ PollScan(t)
       \/ SendTry(t)

SpecPoll == Init /\ [][NextPoll]_vars

\* the steps a thread inside a call takes by itself, unless the OS fails it
Progress(t) == PollLock(t) \/ PollWait(t) \/ PollScan(t) \/ SendTry(t)

\* the scheduler runs every thread that can take a step, and a thread that
\* can take the mutex again and again gets it; nothing is promised of the
\* socket or of the callers
FairPoll ==
  /\ SpecPoll
  /\ \A t \in Threads : WF_vars(Progress(t)) /\ SF_vars(PollLock(t))

\* the addresses construction is tried with
BuildAddrs == {9000, 9001}

\* Build: construction with any local address and peer list, then threads
\* that read the context's fields, dispatch, send and register handlers
NextBuild ==
  \/ \E a \in BuildAddrs, p \in PeerLists : New(a, p)
  \/ \E h \in Handlers : RegisterHandler(h)
  \/ \E t \in Threads :
       \/ GetSocket(t)
       \/ GetAddr(t)
       \/ GetPeers(t)
       \/ HandleEventCall(t)
       \/ HandleRequestCall(t)
       \/ \E res \in Results : SvcReturn(t, res)
       \/ \E e \in Events, a \in Range(peers) : SendCall(t, ToVec(MessageEvent(e)), a)
       \/ SendTry(t)

SpecBuild == Init /\ [][NextBuild]_vars

\* Fatal: threads that wait for readiness and threads that announce blocks,
\* with an OS whose wait can fail and a consumer that can go away
NextFatal ==
  \/ \E a \in LocalAddrs : New(a, OnePeer)
  \/ SockBufferFull
  \/ SockBufferDrained
  \/ DropReceiver
  \/ \E t \in Threads :
       \/ \E r \in ReadyArgs : PollCall(t, r)
       \/ PollLock(t)
       \/ PollWait(t)
       \/ PollWaitFails(t)
       \/ PollScan(t)
       \/ \E b \in HandlerBlocks : AnnounceCall(t, b)
       \/ StepAnnounce(t)

SpecFatal == Init /\ [][NextFatal]_vars

\* the scheduler runs a thread that can take a mutex
FairFatal ==
  /\ SpecFatal
  /\ \A t \in Threads : WF_vars(PollLock(t)) /\ WF_vars(AnnounceLock(t))

(* ------------------------------- claims ------------------------------- *)

\* thread t is inside a propagate call (in its loop or in a send it made)
InPropagate(t) ==
  th[t].pc = "prop_loop" \/ "prop_loop" \in Range(th[t].stack)

\* thread t is inside a send call (at an attempt or in the wait it made)
InSend(t) ==
  th[t].pc = "send_try" \/ "send_try" \in Range(th[t].stack)

\* thread t is inside poll
InPoll(t) == th[t].pc \in {"poll_lock", "poll_wait", "poll_scan"}

\* propagate's loop of thread t has ended and the call is about to return
PropagateEnds(t) ==
  th[t].pc = "prop_loop" /\ th[t].idx > Len(th[t].sel)

\* C1: with 2 or more entries in the peer list, every propagate call selects
\* exactly 2 destinations, hands exactly those 2 to send, and the 2
\* addresses differ.
C1_TwoDistinctAddresses ==
  \A t \in Threads :
    (InPropagate(t) /\ Len(peers) >= 2) =>
      /\ Len(th[t].sel) = 2
      /\ Target(th[t], 1) # Target(th[t], 2)
      /\ PropagateEnds(t) => Len(th[t].sends) = 2

C3_SendWaitsOnWouldBlock ==
  \A t \in Threads :
    /\ th[t].lastRes = "WouldBlock" =>
         \/ th[t].pc = "send_try"
         \/ InPoll(t) /\ Head(th[t].stack) = "send_try" /\ th[t].want = {"W"}
         \/ th[t].pc = "aborted" /\ th[t].panic \in {"poll_failed", "events_poisoned"}
    /\ th[t].retv = Unit("send") => th[t].lastRes \in {"Ok", "Err"}

\* C3 witness: a send is back from its wait for writability, at the attempt
\* that follows a WouldBlock
C3_Witness ==
  \E t \in Threads :
    /\ th[t].pc = "send_try"
    /\ th[t].lastRes = "WouldBlock"
    /\ "W" \notin pending

\* C4: after an attempt that failed with an error other than WouldBlock the
\* send has returned: the thread is not at another attempt, not in poll,
\* not aborted, and what send returned is the unit value a successful send
\* returns.
C4_SendAbandonsSilently ==
  \A t \in Threads :
    th[t].lastRes = "Err" =>
      /\ ~InSend(t)
      /\ ~InPoll(t)
      /\ th[t].pc # "aborted"
      /\ th[t].retv.op = "send" => th[t].retv = Unit("send")
      /\ th[t].retv.op # "none"

\* C4 witness: the first send of a propagate call was abandoned on an
\* error and propagate has the control back
C4_Witness ==
  \E t \in Threads :
    /\ th[t].pc = "prop_loop"
    /\ th[t].lastRes = "Err"
    /\ th[t].retv = Unit("send")
    /\ th[t].idx = 2

\* thread t makes a call of handle_event or handle_request in this step
DispatchCall(t) == HandleEventCall(t) \/ HandleRequestCall(t)

\* C5: with no handler registered, a call of handle_event or handle_request
\* is one step that returns Ok and changes nothing else: the socket and the
\* OS queue, the event buffer and its mutex, the channel and its mutex, and
\* the context's fields stay as they are.
C5_NoHandlerNoOp ==
  [][\A t \in Threads :
       (handler = "none" /\ DispatchCall(t)) =>
         /\ th'[t].pc = "idle"
         /\ th'[t].retv.op \in {"handle_event", "handle_request"}
         /\ th'[t].retv.val = "Ok"
         /\ th'[t].panic = "none"
         /\ UNCHANGED <<ctxVars, sockVars, pollVars, chanVars>>]_vars

\* C5 witness: with no handler registered one thread has called
\* handle_event and the other handle_request
C5_Witness ==
  /\ handler = "none"
  /\ th[1].pc = "idle" /\ th[1].retv = [op |-> "handle_event", val |-> "Ok"]
  /\ th[2].pc = "idle" /\ th[2].retv = [op |-> "handle_request", val |-> "Ok"]

\* thread t is running the handler, or a call the handler made
InHandler(t) ==
  th[t].pc = "svc_run" \/ "svc_run" \in Range(th[t].stack)

\* C6: what handle_event or handle_request returned is what the handler
\* returned to it (an error as it is, Ok as Ok), whatever the handler's own
\* calls into the context returned meanwhile; and a handler runs only
\* inside a dispatch that found it registered.
C6_HandlerResultUnchanged ==
  \A t \in Threads :
    /\ (th[t].pc = "idle" /\ th[t].retv.op \in {"handle_event", "handle_request"}) =>
         th[t].retv.val = (IF th[t].hres = "none" THEN "Ok" ELSE th[t].hres)
    /\ th[t].hres # "none" =>
         th[t].pc = "idle" /\ th[t].retv.op \in {"handle_event", "handle_request"}
    /\ InHandler(t) => handler # "none" /\ th[t].svc = handler

\* C6 witness: the handler failed with E2 after calling back propagate, and
\* handle_event returned E2
C6_Witness ==
  \E t \in Threads :
    /\ th[t].pc = "idle"
    /\ th[t].retv = [op |-> "handle_event", val |-> "E2"]
    /\ th[t].hres = "E2"

\* the values of the entries of queue q
Vals(q) == [i \in DOMAIN q |-> q[i].val]

\* the values thread t put in queue q, in the queue's order
FromThread(q, t) ==
  LET Mine(x) == x.src = t
  IN Vals(SelectSeq(q, Mine))

\* s is a prefix of q
IsPrefix(s, q) == Len(s) <= Len(q) /\ s = SubSeq(q, 1, Len(s))

\* C7: what the consumer has received followed by what is still queued
\* holds, for each thread, the blocks of that thread's completed
\* announce_block calls with their values and in the order of the calls
\* (after the receiver is dropped: what was received is a prefix of them).
C7_FifoPerProducer ==
  \A t \in Threads :
    IF rxAlive
    THEN FromThread(rcvd \o chan, t) = announced[t]
    ELSE IsPrefix(FromThread(rcvd, t), announced[t])

\* C7 witness: a thread's two blocks of different values were received in
\* its call order with a block of the other thread between them
C7_Witness ==
  \E t \in Threads :
    /\ Len(announced[t]) = 2
    /\ announced[t][1] # announced[t][2]
    /\ Len(rcvd) = 3
    /\ rcvd[1] = [src |-> t, val |-> announced[t][1]]
    /\ rcvd[2].src # t
    /\ rcvd[3] = [src |-> t, val |-> announced[t][2]]

\* occurrences of value b in sequence q
CountVal(q, b) == Cardinality({i \in DOMAIN q : q[i] = b})

\* occurrences of b among the blocks of the completed calls of the threads S
RECURSIVE AnnouncedCount(_, _)
AnnouncedCount(S, b) ==
  IF S = {} THEN 0
  ELSE LET t == CHOOSE x \in S : TRUE
       IN CountVal(announced[t], b) + AnnouncedCount(S \ {t}, b)

\* C8: while the receiver is alive, the blocks received and the blocks
\* still queued are together, value for value, the blocks of the completed
\* announce_block calls: none lost, none twice.  (After the receiver is
\* dropped nothing more is received.)
C8_NoLossNoDuplicate ==
  \A b \in Blocks :
    IF rxAlive
    THEN CountVal(Vals(rcvd \o chan), b) = AnnouncedCount(Threads, b)
    ELSE CountVal(Vals(rcvd), b) <= AnnouncedCount(Threads, b)

\* C8 witness: every thread has made all its calls concurrently with the
\* others and the consumer has received N * M blocks
C8_Witness ==
  /\ rxAlive
  /\ chan = <<>>
  /\ \A t \in Threads : Len(announced[t]) = MaxAnnounce
  /\ Len(rcvd) = Cardinality(Threads) * MaxAnnounce
  /\ rcvd[1].src # rcvd[2].src

\* thread t is inside announce_block
InAnnounce(t) == th[t].pc \in {"ann_lock", "ann_send"}

\* C9: once the receiver is dropped, a step of a thread inside
\* announce_block takes the mutex or aborts the thread: the call does not
\* return, nothing is queued and no call counts as completed.
C9_AbortWhenReceiverDropped ==
  [][\A t \in Threads :
       (~rxAlive /\ InAnnounce(t) /\ th'[t] # th[t]) =>
         /\ th'[t].pc \in {"ann_send", "aborted"}
         /\ th[t].pc = "ann_send" => th'[t].pc = "aborted"
         /\ chan' = chan
         /\ chan = <<>>
         /\ announced' = announced]_vars

\* C9 witness: the receiver was dropped while a thread was between its
\* lock and its send, and the thread aborted there
C9_Witness ==
  \E t \in Threads :
    /\ ~rxAlive
    /\ th[t].pc = "aborted"
    /\ th[t].panic = "receiver_dropped"
    /\ chan = <<>>

\* C11: the handler slot is empty exactly as long as register_event_handler
\* was never called; the slot holds the handler of the last call, which
\* returned Ok; a running handler is the one of the last call, never a
\* replaced one; only a register_event_handler step changes the slot, and
\* no step empties it.
C11_HandlerSlot ==
  /\ [](handler = "none" <=> ~registered)
  /\ [](registered <=> regCall # NoReg)
  /\ [](registered => regCall.val = "Ok" /\ handler = regCall.arg)
  /\ [](\A t \in Threads : InHandler(t) => th[t].svc = regCall.arg)
  /\ [][handler' # handler => \E h \in Handlers : RegisterHandler(h)]_vars
  /\ [][handler # "none" => handler' # "none"]_vars
  /\ [][\A t \in Threads :
         (handler # "none" /\ DispatchCall(t)) =>
           th'[t].pc = "svc_run" /\ th'[t].svc = regCall.arg]_vars

\* C11 witness: the last registration was of h2, one thread's dispatch
\* runs h2 and the other thread's dispatch has returned its handler's error
C11_Witness ==
  /\ regCall = [arg |-> "h2", val |-> "Ok"]
  /\ th[1].pc = "svc_run" /\ th[1].svc = "h2"
  /\ th[2].pc = "idle" /\ th[2].hres = "E1"

\* construction failed at one of its three fallible steps
BuildFailed == built \in {"bind_failed", "poll_new_failed", "register_failed"}

\* C12: a construction that fails at the bind, at Poll::new or at the
\* registration leaves no context (no field is set, no call is ever made);
\* one that succeeds stores exactly the address and the peer list it was
\* given and no handler; no later step changes the address or the peer
\* list, and the accessors return them.
C12_Construction ==
  /\ [](built \in {"no", "ok"} \/ BuildFailed)
  /\ [](BuildFailed =>
         /\ addr = 0 /\ peers = <<>> /\ handler = "none" /\ ~registered
         /\ \A t \in Threads : th[t] = IdleThread)
  /\ [][~BuildFailed]_vars
  /\ [][\A a \in BuildAddrs, p \in PeerLists :
         (New(a, p) /\ built' = "ok") =>
           addr' = a /\ peers' = p /\ handler' = "none"]_vars
  /\ [][built = "ok" => built' = "ok" /\ addr' = addr /\ peers' = peers]_vars
  /\ [](\A t \in Threads :
          /\ th[t].retv.op = "get_addr" => th[t].retv.val = addr
          /\ th[t].retv.op = "get_peers" => th[t].retv.val = peers)

\* C12 witness: a context built with the second address and a list that
\* repeats a peer, after a registration and a send, answers its accessors
C12_Witness ==
  /\ built = "ok" /\ addr = 9001 /\ peers = <<1, 1>>
  /\ handler = "h1"
  /\ th[1].retv = [op |-> "get_addr", val |-> 9001]
  /\ th[2].retv = [op |-> "get_peers", val |-> <<1, 1>>]

\* thread t is at the call, made by its handler, of announce_block
NestedAnnounce(t) ==
  InAnnounce(t) /\ th[t].stack # <<>> /\ Head(th[t].stack) = "svc_run"

\* C13: a thread holds neither mutex while its handler runs, and the calls
\* the handler makes back into the context never wait for a mutex their own
\* thread holds: a thread holds at most one mutex, the events mutex only
\* inside poll and the channel's mutex only inside announce_block's send,
\* and a thread that waits for a mutex holds none.  A nested announce_block
\* returns to the handler.
C13_NestedCallsNoDeadlock ==
  /\ [](\A t \in Threads :
          /\ th[t].pc = "svc_run" => evLock # t /\ txLock # t
          /\ evLock = t => th[t].pc \in {"poll_wait", "poll_scan"} /\ txLock # t
          /\ txLock = t => th[t].pc = "ann_send" /\ evLock # t
          /\ th[t].pc \in {"poll_lock", "ann_lock"} => evLock # t /\ txLock # t
          /\ InHandler(t) => th[t].svc = handler)
  /\ \A t \in Threads :
       NestedAnnounce(t) ~>
         (th[t].pc = "svc_run" /\ th[t].retv = Unit("announce_block"))

\* C13 witness: one thread's handler has a propagate it called back, the
\* other thread's handler, dispatched by handle_request, an announce_block,
\* and the block is in the channel
C13_Witness ==
  /\ th[1].pc = "svc_run" /\ th[1].disp = "handle_event"
  /\ th[1].retv = Unit("propagate")
  /\ th[2].pc = "svc_run" /\ th[2].disp = "handle_request"
  /\ th[2].retv = Unit("announce_block")
  /\ chan # <<>>

\* the sets of addresses the selections of choose_multiple(rng, 2) on the
\* peer list p address
SelectableTargets(p) ==
  {{p[s[k]] : k \in DOMAIN s} : s \in ChooseMultiple(p, 2)}

\* C14: on a context whose peer list has 2 or more entries, the selections
\* propagate can make are exactly the 2-element subsets of the peers, and a
\* propagate call that is running targets 2 distinct peers.
C14_AllPairsSelectable ==
  (built = "ok" /\ Len(peers) >= 2) =>
    /\ SelectableTargets(peers) = {S \in SUBSET Range(peers) : Cardinality(S) = 2}
    /\ \A t \in Threads :
         InPropagate(t) => Cardinality({Target(th[t], k) : k \in DOMAIN th[t].sel}) = 2

\* C15: a thread leaves poll by a return only from the scan of the batch
\* its last Poll::poll delivered, and only if that batch holds an event of
\* the socket's token whose readiness includes all that was asked for;
\* after a timeout with no event, or a batch of other kinds only, the
\* thread's next step is another Poll::poll (or its failure), the mutex
\* still held.
C15_ReturnsOnlyOnMatch ==
  [][\A t \in Threads :
       LET match == \E e \in events : e.token = 0 /\ th[t].want \subseteq e.ready
       IN /\ (InPoll(t) /\ ~InPoll(t)' /\ th'[t].pc # "aborted") =>
               /\ th[t].pc = "poll_scan"
               /\ evLock = t
               /\ match
          /\ (th[t].pc = "poll_scan" /\ ~match /\ th'[t] # th[t]) =>
               /\ th'[t].pc = "poll_wait"
               /\ evLock' = t
          /\ (th[t].pc = "poll_wait" /\ th'[t] # th[t]) =>
               th'[t].pc \in {"poll_scan", "aborted"}]_vars

\* C15 witness: a thread that asked for readable scans a batch that holds
\* a writable event only, while the other thread has returned from its poll
C15_Witness ==
  \E t, u \in Threads :
    /\ th[t].pc = "poll_scan" /\ th[t].stack = <<>>
    /\ th[t].want = {"R"}
    /\ events = {Event({"W"})}
    /\ th[u].retv = Unit("poll")

\* thread t, in a poll for kind k that it called itself, holds the mutex
\* and is at a Poll::poll while the socket is in readiness k and the edge
\* to k has already been delivered
LateWaiter(t, k) ==
  /\ th[t].pc = "poll_wait"
  /\ th[t].stack = <<>>
  /\ th[t].want = {k}
  /\ evLock = t
  /\ k \in Levels
  /\ k \notin pending

\* C16: a waiter that is late for the edge to the kind it asks for, on a
\* socket that is in that readiness, returns from poll, unless the socket
\* leaves that readiness (or, the code being given more than the claim
\* asks, unless the socket makes another transition).
C16_LateWaiterReturns ==
  \A t \in Threads, k \in Kinds :
    LateWaiter(t, k) ~> (~InPoll(t) \/ k \notin Levels \/ pending # {})

\* the threads that are in Poll::poll or iterate the delivered events
Polling == {t \in Threads : th[t].pc \in {"poll_wait", "poll_scan"}}

\* C17: at most one thread is in Poll::poll or iterates the event buffer,
\* and that thread is the owner of the events mutex; a thread elsewhere
\* does not own it.
C17_OnePollerAtATime ==
  /\ Cardinality(Polling) <= 1
  /\ \A t \in Threads : t \in Polling <=> evLock = t
  /\ evLock \in Threads \cup {0}

\* C17 witness: a thread iterates the events inside send's wait while the
\* other thread, which called poll itself, waits for the mutex
C17_Witness ==
  \E t, u \in Threads :
    /\ th[t].pc = "poll_scan" /\ th[t].stack = <<"send_try">>
    /\ th[u].pc = "poll_lock" /\ th[u].stack = <<>>
    /\ evLock = t

\* C18: inside a propagate call the send calls made so far are one per
\* selected position, in the order of the selection, each to the peer at
\* that position and each with the buffer serialized from
\* Message::Event(event); they are at most 2 and, when the loop ends, as
\* many as the selection.  The selection and the buffer do not change
\* during the call, and after any send but the last, abandoned or not, the
\* next step of propagate is the send to the next selected peer.
C18_OneSendPerSelectedPeer ==
  /\ [](\A t \in Threads :
          InPropagate(t) =>
            /\ Len(th[t].sends) = th[t].idx - 1
            /\ Len(th[t].sends) <= 2
            /\ Len(th[t].sends) <= Len(th[t].sel)
            /\ \A i, j \in DOMAIN th[t].sel : i # j => th[t].sel[i] # th[t].sel[j]
            /\ th[t].buf \in {<<"Event", e>> : e \in Events}
            /\ \A k \in DOMAIN th[t].sends :
                 /\ th[t].sends[k].to = peers[th[t].sel[k]]
                 /\ th[t].sends[k].buf = th[t].buf
            /\ PropagateEnds(t) => Len(th[t].sends) = Len(th[t].sel))
  /\ [][\A t \in Threads :
         /\ (InPropagate(t) /\ InPropagate(t)') =>
              th'[t].sel = th[t].sel /\ th'[t].buf = th[t].buf
         /\ (th[t].pc = "prop_loop" /\ th[t].idx <= Len(th[t].sel)
               /\ th'[t] # th[t]) =>
              /\ th'[t].pc = "send_try"
              /\ th'[t].dest = peers[th[t].sel[th[t].idx]]
              /\ th'[t].buf = th[t].buf]_vars

\* C18 witness: the send to the second selected peer, another peer than
\* the first, is under way after the send to the first was abandoned
C18_Witness ==
  \E t \in Threads :
    /\ th[t].pc = "send_try" /\ th[t].stack = <<"prop_loop">>
    /\ Len(th[t].sends) = 2
    /\ th[t].sends[2].after = "Err"
    /\ th[t].sends[1].to # th[t].sends[2].to

\* C19: a thread that has taken the events mutex in poll keeps it as long
\* as it is in poll, over every timeout and re-wait, and gives it up only
\* by returning on a match or by the panic of a failed Poll::poll.  While
\* it holds the mutex no other thread in poll takes a step: none starts
\* polling, none returns.  A batch is scanned only by the thread whose
\* Poll::poll delivered it, and its delivery consumes the pending edges, so
\* events of kinds the holder did not ask for reach no other waiter.
C19_LockHeldAcrossWaits ==
  [][\A t \in Threads :
       /\ (evLock = t /\ InPoll(t)') => evLock' = t
       /\ (evLock = t /\ evLock' # t) =>
            \/ /\ th[t].pc = "poll_scan"
               /\ Delivered(events, th[t].want)
               /\ ~InPoll(t)' /\ th'[t].pc # "aborted"
            \/ th[t].pc = "poll_wait" /\ th'[t].pc = "aborted"
       /\ \A u \in Threads \ {t} :
            (evLock = t /\ InPoll(u)) => th[u].pc = "poll_lock" /\ th'[u] = th[u]
       /\ (th[t].pc # "poll_scan" /\ th'[t].pc = "poll_scan") =>
            /\ th[t].pc = "poll_wait" /\ evLock = t
            /\ events' # {} => pending' = {}
       /\ th[t].pc = "poll_scan" => events' = events]_vars

\* C19 witness: the holder of the mutex, waiting for writable, scans a
\* batch that holds a readable event only, while the other thread, which
\* asked for readable, waits for the mutex and no edge is left pending
C19_Witness ==
  \E t, u \in Threads :
    /\ th[t].pc = "poll_scan" /\ th[t].want = {"W"} /\ evLock = t
    /\ events = {Event({"R"})}
    /\ pending = {}
    /\ th[u].pc = "poll_lock" /\ th[u].want = {"R"}

\* thread t was aborted with panic why
Aborted(t, why) == th[t].pc = "aborted" /\ th[t].panic = why

\* C20: a thread aborted by a failed Poll::poll leaves the events mutex
\* poisoned and free, and from then on every thread that is in poll or
\* calls it is aborted at the lock: it does not poll, does not return and
\* does not wait for ever.  A thread aborted in announce_block because the
\* receiver was dropped leaves the channel's mutex poisoned and free, and
\* from then on every thread that is in announce_block or calls it is
\* aborted at the lock, and nothing is queued.  A poisoned mutex stays
\* poisoned.
C20_FatalFailureSpreads ==
  /\ [](\A t \in Threads :
          /\ Aborted(t, "poll_failed") => evPoisoned
          /\ Aborted(t, "receiver_dropped") => txPoisoned
          /\ Aborted(t, "events_poisoned") =>
               \E u \in Threads \ {t} : Aborted(u, "poll_failed")
          /\ Aborted(t, "tx_poisoned") =>
               \E u \in Threads \ {t} : Aborted(u, "receiver_dropped")
          /\ (evPoisoned /\ InPoll(t)) => th[t].pc = "poll_lock"
          /\ (txPoisoned /\ InAnnounce(t)) => th[t].pc = "ann_lock")
  /\ [](evPoisoned => evLock = 0)
  /\ [](txPoisoned => txLock = 0 /\ ~rxAlive)
  /\ [][(evPoisoned => evPoisoned') /\ (txPoisoned => txPoisoned')]_vars
  /\ [][\A t \in Threads :
         /\ (evPoisoned /\ InPoll(t) /\ th'[t] # th[t]) =>
              Aborted(t, "events_poisoned")' /\ evLock' = 0
         /\ (txPoisoned /\ InAnnounce(t) /\ th'[t] # th[t]) =>
              /\ Aborted(t, "tx_poisoned")' /\ txLock' = 0
              /\ chan' = chan /\ announced' = announced]_vars
  /\ \A t \in Threads :
       /\ (evPoisoned /\ InPoll(t)) ~> Aborted(t, "events_poisoned")
       /\ (txPoisoned /\ InAnnounce(t)) ~> Aborted(t, "tx_poisoned")

\* C20 witness: one thread was aborted in announce_block because the
\* receiver was dropped, and the other, which had completed an
\* announce_block before, was aborted at the lock of a later one
C20_Witness ==
  \E t, u \in Threads :
    /\ Aborted(t, "receiver_dropped")
    /\ Aborted(u, "tx_poisoned")
    /\ announced[u] # <<>>
    /\ chan = <<>>

\* thread u has called poll(readable) and is kept at the mutex by a thread
\* that holds it inside the wait for writability of its send, while the
\* socket is readable and not writable
KeptOutBySend(u) ==
  /\ th[u].pc = "poll_lock"
  /\ th[u].stack = <<>>
  /\ th[u].want = {"R"}
  /\ sockR
  /\ ~sockW
  /\ evLock \in Threads \ {u}
  /\ th[evLock].stack = <<"send_try">>

\* C10, for a wait for another kind that the socket does reach: a thread
\* stalled inside send stalls only itself, so a thread that has called
\* poll(readable) on a readable socket is not kept out for ever by a thread
\* that is inside the wait of its send on a socket that stays non-writable.
C10_StallConfined ==
  \A u \in Threads : KeptOutBySend(u) ~> ~KeptOutBySend(u)

====
